---- MODULE Spec2Model ----
(***************************************************************************)
(* Regime-rotation backtests of jwos1233/dashboardv2: the day loop of the  *)
(* entry-lag backtests (quad_portfolio_backtest_ENTRY_LAG_2D.py,           *)
(* quad_portfolio_backtest_ENTRY_LAG_CURRENT.py) and of the plain          *)
(* event-driven backtest (quad_portfolio_backtest_volweight.py), the       *)
(* target-weight computation they share, and the tables fetch_data and     *)
(* run_backtest derive from the downloaded prices.                         *)
(*                                                                         *)
(* Weights are exact rationals.                                            *)
(***************************************************************************)
EXTENDS Integers, FiniteSets, Sequences, TLC

(***************************************************************************)
(* Bounds of the model.                                                    *)
(***************************************************************************)
\* annualised volatilities range over 1..MaxVol; 0 stands for a volatility
\* that fails `pd.notna(vol) and vol > 0`
MaxVol == 1

\* a downloaded price history has the dates 0..NumDays-1 and closing prices
\* in 1..MaxPrice
NumDays == 5

MaxPrice == 2

(***************************************************************************)
(* Configuration (config.py).                                              *)
(***************************************************************************)
\* the ticker universe, cut down to tickers with different quadrant
\* membership: IBIT is in Q1, Q2 and Q3, ETHA in Q1 only
Tickers == {"IBIT", "ETHA"}

QUAD_ALLOCATIONS ==
    [Q1 |-> {"IBIT", "ETHA"}, Q2 |-> {"IBIT"}, Q3 |-> {"IBIT"}, Q4 |-> {}]

Quads == DOMAIN QUAD_ALLOCATIONS

\* quad_portfolio_backtest_volweight.py has its own allocation table; every
\* quadrant has tickers, and of them XLE and XLU are loaded
QUAD_ALLOCATIONS_VOLWEIGHT ==
    [Q1 |-> {"LQD"}, Q2 |-> {"XLE"}, Q3 |-> {"XLE", "XLU"}, Q4 |-> {"LQD", "XLU"}]

TickersVolweight == {"XLE", "XLU"}

\* calculate_quad_scores gives a score column only to a quadrant that has
\* tickers, so only these quadrants can be ranked
ScoredQuads == {q \in Quads : QUAD_ALLOCATIONS[q] # {}}

None == "None"

RECURSIVE ProdOver(_, _)
ProdOver(S, f) ==
    IF S = {} THEN 1
    ELSE LET x == CHOOSE y \in S : TRUE IN f[x] * ProdOver(S \ {x}, f)

RECURSIVE SumOver(_, _)
SumOver(S, f) ==
    IF S = {} THEN 0
    ELSE LET x == CHOOSE y \in S : TRUE IN f[x] + SumOver(S \ {x}, f)

(***************************************************************************)
(* Weights are exact rationals <<numerator, denominator>> in lowest terms, *)
(* so that equal weights are equal values.                                 *)
(***************************************************************************)
RECURSIVE GCD(_, _)
GCD(a, b) == IF b = 0 THEN a ELSE GCD(b, a % b)

Rat(n, d) == IF n = 0 THEN <<0, 1>> ELSE <<n \div GCD(n, d), d \div GCD(n, d)>>

Zero == Rat(0, 1)

RatAdd(x, y) == Rat(x[1] * y[2] + y[1] * x[2], x[2] * y[2])

IsPos(x) == x[1] > 0

(***************************************************************************)
(* One row of the per-date tables the day loop reads: top_quads.loc[d],    *)
(* price > EMA per ticker at d, and volatility_data.loc[d].                *)
(***************************************************************************)
QuadPairs == {p \in ScoredQuads \X ScoredQuads : p[1] # p[2]}

\* the rows whose price > EMA status is ema
RowsWith(ema) == [quads : QuadPairs, ema : {ema}, vol : [Tickers -> 0..MaxVol]]

\* volweight scores every quadrant of QUAD_INDICATORS
QuadPairsVolweight == {p \in Quads \X Quads : p[1] # p[2]}

RowsVolweightWith(ema) ==
    [quads : QuadPairsVolweight, ema : {ema}, vol : [TickersVolweight -> 0..MaxVol]]

(***************************************************************************)
(* calculate_target_weights for one date.                                  *)
(***************************************************************************)
\* the leverage of a selected quadrant, in halves: Q1 gets 1.5x, the
\* others 1x
quad_weight(q) == IF q = "Q1" THEN 3 ELSE 2

\* quad_tickers: the quadrant's tickers that are columns of price_data
quad_tickers(q, cols) == QUAD_ALLOCATIONS[q] \cap cols

\* quad_vols: the quadrant's tickers with a valid, positive volatility
quad_vols(q, row, cols) == {t \in quad_tickers(q, cols) : row.vol[t] > 0}

\* variant of vol_weights without the division by total_vol
vol_weights_unnormalised(q, t, row, cols) ==
    Rat(row.vol[t] * quad_weight(q), 2)

\* vol_weights[t] = (v / total_vol) * quad_weight
vol_weights(q, t, row, cols) ==
    Rat(row.vol[t] * quad_weight(q), 2 * SumOver(quad_vols(q, row, cols), row.vol))

\* the EMA filter: the weight is admitted only if price > EMA
admitted(q, t, row, cols) ==
    IF t \in quad_vols(q, row, cols) /\ row.ema[t]
    THEN vol_weights(q, t, row, cols) ELSE Zero

calculate_target_weights(row, cols) ==
    [t \in cols |-> RatAdd(admitted(row.quads[1], t, row, cols),
                           admitted(row.quads[2], t, row, cols))]

(***************************************************************************)
(* calculate_target_weights of quad_portfolio_backtest_volweight.py:       *)
(* inverse volatility weights, both quadrants at 1x.                       *)
(***************************************************************************)
quad_vols_VOLWEIGHT(q, row, cols) ==
    {t \in QUAD_ALLOCATIONS_VOLWEIGHT[q] \cap cols : row.vol[t] > 0}

\* (1/v) / total_inv_vol, with numerator and denominator multiplied by the
\* product of the quadrant's volatilities
inv_vol_weights(q, t, row, cols) ==
    LET S == quad_vols_VOLWEIGHT(q, row, cols)
        inv(u) == ProdOver(S \ {u}, row.vol)
    IN  Rat(inv(t), SumOver(S, [u \in S |-> inv(u)]))

admitted_VOLWEIGHT(q, t, row, cols) ==
    IF t \in quad_vols_VOLWEIGHT(q, row, cols) /\ row.ema[t]
    THEN inv_vol_weights(q, t, row, cols) ELSE Zero

calculate_target_weights_VOLWEIGHT(row, cols) ==
    [t \in cols |-> RatAdd(admitted_VOLWEIGHT(row.quads[1], t, row, cols),
                           admitted_VOLWEIGHT(row.quads[2], t, row, cols))]

(***************************************************************************)
(* State of run_backtest's day loop.                                       *)
(***************************************************************************)
VARIABLES
    variant,          \* which backtest runs: "LAG_2D", "LAG_CURRENT", "VOLWEIGHT"
    target_ema,       \* price > EMA per ticker at the coming target_date
    prev_top_quads,   \* None before the first simulated day
    prev_ema_status,  \* {} before the first simulated day
    actual_positions, \* ticker -> held weight
    pending_entries,  \* ticker -> [weight, days_waiting]
    passed,           \* history: ticker -> passing checks of its pending entry
    ever_exited,      \* history: tickers whose position was closed at some day
    log,              \* history: what the last executed day did
    history,          \* the downloaded prices, the cut-off date T and the loop's date
    truncated,        \* the loop's variables in the run on the prices up to T
    weights,          \* one call of calculate_target_weights: input and result
    pending_file,     \* pending_entries.json on disk
    night,            \* history: the last night run of the live trader
    morning,          \* history: the last morning run of the live trader
    position,         \* one position from the initializer's analysis to the broker
    selection,        \* one call of determine_top_quads: scores and selected pair
    execution,        \* one call of IBExecutor.execute_rebalance: account and result
    adjustment,       \* one regime adjustment of the Hyperliquid executors
    bootstrap         \* one call of _bootstrap_block_returns: input, draws and result

\* the single calls of the executors and of the Monte Carlo bootstrap
other_calls == <<execution, adjustment, bootstrap>>

\* the variables outside run_backtest's day loop
call_vars == <<weights, pending_file, night, morning, position, selection, other_calls>>

vars == <<variant, target_ema, prev_top_quads, prev_ema_status, actual_positions,
          pending_entries, passed, ever_exited, log, history, truncated, call_vars>>

\* no call of calculate_target_weights
NoWeights == [impl |-> None, row |-> << >>, max_positions |-> 0,
              admitted |-> << >>, final |-> << >>]

\* pending_entries.json does not exist
MissingFile == [state |-> "missing", entries |-> << >>]

\* no night run, no morning run yet
NoNight == [ran |-> FALSE, crashed |-> FALSE, previous |-> << >>, new_entries |-> << >>]
NoMorning == [ran |-> FALSE, crashed |-> FALSE, dry_run |-> FALSE, market |-> << >>,
              loaded |-> << >>, confirmed |-> << >>, rejected |-> {},
              error |-> None, executed |-> FALSE,
              target_weights |-> << >>, atr_data |-> << >>]

\* no position is tracked
NoPosition == [stage |-> "none", entry_price |-> 0, atr |-> 0, expected_stop |-> 0,
               has_stop |-> FALSE, stop_price |-> 0, price |-> 0]

\* no call of determine_top_quads
NoSelection == [scores |-> << >>, pair |-> << >>]

\* no call of execute_rebalance, no regime adjustment, no bootstrap
NoExecution == [called |-> FALSE]
NoAdjustment == [called |-> FALSE]
NoBootstrap == [called |-> FALSE]

NoOtherCalls ==
    execution = NoExecution /\ adjustment = NoAdjustment /\ bootstrap = NoBootstrap

NoLive ==
    /\ pending_file = MissingFile /\ night = NoNight /\ morning = NoMorning
    /\ position = NoPosition /\ selection = NoSelection
    /\ NoOtherCalls

\* a backtest run makes none of the single calls
NoCalls == weights = NoWeights /\ NoLive

EntryLagVariants == {"LAG_2D", "LAG_CURRENT"}
Variants == EntryLagVariants \cup {"VOLWEIGHT"}

\* price > EMA of ticker t in an ema-status dictionary; a ticker without an
\* entry does not pass
above_ema(status, t) == t \in DOMAIN status /\ status[t]

(***************************************************************************)
(* Processing of the pending entries.                                      *)
(***************************************************************************)
\* ENTRY_LAG_2D: `if entry_info['days_waiting'] >= 2`
ConfirmDays2D == 2

\* variant of confirmed_2D that confirms after a single passing check
confirmed_2D_one_day(pending, status) ==
    {t \in DOMAIN pending :
        above_ema(status, t) /\ pending[t].days_waiting + 1 >= 1}

\* ENTRY_LAG_2D: tickers confirmed, rejected and still waiting
confirmed_2D(pending, status) ==
    {t \in DOMAIN pending :
        above_ema(status, t) /\ pending[t].days_waiting + 1 >= ConfirmDays2D}

\* variant of rejected_2D that rejects nothing: a failing entry keeps waiting
rejected_2D_keep(pending, status) == {}

rejected_2D(pending, status) ==
    {t \in DOMAIN pending : ~above_ema(status, t)}

waiting_2D(pending, status) ==
    [t \in DOMAIN pending \ (confirmed_2D(pending, status) \cup rejected_2D(pending, status)) |->
        [pending[t] EXCEPT !.days_waiting = @ + 1]]

\* ENTRY_LAG_CURRENT: every entry is resolved by today's status and removed
confirmed_CURRENT(pending, status) ==
    {t \in DOMAIN pending : above_ema(status, t)}

rejected_CURRENT(pending, status) ==
    {t \in DOMAIN pending : ~above_ema(status, t)}

waiting_CURRENT(pending, status) ==
    [t \in DOMAIN pending \ (confirmed_CURRENT(pending, status) \cup rejected_CURRENT(pending, status)) |->
        pending[t]]

(***************************************************************************)
(* The rebalance decision.                                                 *)
(***************************************************************************)
\* variant of ema_crossover that never reports a crossover
ema_crossover_never(cur_status, prev_status) == FALSE

ema_crossover(cur_status, prev_status) ==
    \E t \in DOMAIN cur_status :
        t \in DOMAIN prev_status /\ cur_status[t] # prev_status[t]

\* variant of should_rebalance that rebalances every day
should_rebalance_daily(prev_quads, prev_status, cur_quads, cur_status) == TRUE

should_rebalance(prev_quads, prev_status, cur_quads, cur_status) ==
    \/ prev_quads = None
    \/ prev_quads # None /\ cur_quads # prev_quads
    \/ prev_quads # None /\ cur_quads = prev_quads
                         /\ ema_crossover(cur_status, prev_status)

(***************************************************************************)
(* The rebalance block.                                                    *)
(***************************************************************************)
\* "First, apply confirmed entries"
apply_confirmed(positions, pending, confirmed) ==
    [t \in DOMAIN positions |->
        IF t \in confirmed THEN pending[t].weight ELSE positions[t]]

\* variants of rebalance_position: without the exit branch, without the
\* adjustment of a held position, and opening a new position directly
rebalance_position_no_exit(target_weight, current_position) ==
    IF IsPos(target_weight) /\ IsPos(current_position) THEN target_weight
    ELSE current_position

rebalance_position_no_adjust(target_weight, current_position) ==
    IF target_weight = Zero /\ IsPos(current_position) THEN Zero
    ELSE current_position

rebalance_position_direct(target_weight, current_position) ==
    IF target_weight = Zero /\ IsPos(current_position) THEN Zero
    ELSE IF IsPos(target_weight) THEN target_weight
    ELSE current_position

\* one ticker of "Now handle the rest of the rebalancing": the position
rebalance_position(target_weight, current_position) ==
    IF target_weight = Zero /\ IsPos(current_position) THEN Zero
    ELSE IF IsPos(target_weight) /\ current_position = Zero THEN current_position
    ELSE IF IsPos(target_weight) /\ IsPos(current_position) THEN target_weight
    ELSE current_position

\* variant of new_entries_2D without the `ticker not in actual_positions` test
new_entries_2D_holding(targets, positions, confirmed, waiting) ==
    {t \in DOMAIN targets : /\ IsPos(targets[t])
                            /\ t \notin confirmed /\ t \notin DOMAIN waiting}

\* variant of new_entries_2D without the `ticker not in pending_entries` test
new_entries_2D_again(targets, positions, confirmed, waiting) ==
    {t \in DOMAIN targets : /\ IsPos(targets[t]) /\ positions[t] = Zero
                            /\ t \notin confirmed}

\* the tickers the loop adds to pending_entries
new_entries_2D(targets, positions, confirmed, waiting) ==
    {t \in DOMAIN targets : /\ IsPos(targets[t]) /\ positions[t] = Zero
                            /\ t \notin confirmed /\ t \notin DOMAIN waiting}

\* variant of new_entries_CURRENT without the `current_position == 0` test
new_entries_CURRENT_holding(targets, positions, confirmed, waiting) ==
    {t \in DOMAIN targets : IsPos(targets[t]) /\ t \notin confirmed}

new_entries_CURRENT(targets, positions, confirmed, waiting) ==
    {t \in DOMAIN targets : /\ IsPos(targets[t]) /\ positions[t] = Zero
                            /\ t \notin confirmed}

add_pending(waiting, created, targets) ==
    [t \in DOMAIN waiting \cup created |->
        IF t \in created THEN [weight |-> targets[t], days_waiting |-> 0]
        ELSE waiting[t]]

(***************************************************************************)
(* One iteration of the day loop, as a function of what it reads: the rows *)
(* of top_quads, of the price > EMA status and of target_weights at        *)
(* target_date, today's price > EMA status (read by ENTRY_LAG_CURRENT      *)
(* only) and the loop's variables.  The result carries the new positions   *)
(* and pending entries and the loop's local variables.                     *)
(***************************************************************************)
day_2D(current_top_quads, current_ema_status, current_targets, today_ema_status, prev_quads, prev_status, positions, pending) ==
    LET confirmed == confirmed_2D(pending, current_ema_status)
        rejected  == rejected_2D(pending, current_ema_status)
        waiting   == waiting_2D(pending, current_ema_status)
        should    == should_rebalance(prev_quads, prev_status, current_top_quads,
                                      current_ema_status)
        rebalance == should \/ confirmed # {}
        entered   == apply_confirmed(positions, pending, confirmed)
        created   == new_entries_2D(current_targets, entered, confirmed, waiting)
    IN  [positions |-> IF rebalance
                       THEN [t \in DOMAIN current_targets |->
                                rebalance_position(current_targets[t], entered[t])]
                       ELSE positions,
         pending   |-> IF rebalance
                       THEN add_pending(waiting, created, current_targets)
                       ELSE waiting,
         confirmed |-> confirmed, rejected |-> rejected,
         created   |-> IF rebalance THEN created ELSE {},
         should_rebalance |-> should, rebalanced |-> rebalance]

day_CURRENT(current_top_quads, yesterday_ema_status, current_targets, today_ema_status, prev_quads, prev_status, positions, pending) ==
    LET confirmed == confirmed_CURRENT(pending, today_ema_status)
        rejected  == rejected_CURRENT(pending, today_ema_status)
        waiting   == waiting_CURRENT(pending, today_ema_status)
        should    == should_rebalance(prev_quads, prev_status, current_top_quads,
                                      yesterday_ema_status)
        rebalance == should \/ confirmed # {}
        entered   == apply_confirmed(positions, pending, confirmed)
        created   == new_entries_CURRENT(current_targets, entered, confirmed, waiting)
    IN  [positions |-> IF rebalance
                       THEN [t \in DOMAIN current_targets |->
                                rebalance_position(current_targets[t], entered[t])]
                       ELSE positions,
         pending   |-> IF rebalance
                       THEN add_pending(waiting, created, current_targets)
                       ELSE waiting,
         confirmed |-> confirmed, rejected |-> rejected,
         created   |-> IF rebalance THEN created ELSE {},
         should_rebalance |-> should, rebalanced |-> rebalance]

\* quad_portfolio_backtest_volweight.py: no pending entries, a rebalance
\* copies the target weights
day_VOLWEIGHT(current_top_quads, current_ema_status, current_targets, today_ema_status, prev_quads, prev_status, positions, pending) ==
    LET should == should_rebalance(prev_quads, prev_status, current_top_quads,
                                   current_ema_status)
    IN  [positions |-> IF should THEN current_targets ELSE positions,
         pending   |-> pending,
         confirmed |-> {}, rejected |-> {}, created |-> {},
         should_rebalance |-> should, rebalanced |-> should]

\* the loop body of the backtest v
loop_body(v, quads, status, targets, today_ema_status, prev_quads, prev_status, positions, pending) ==
    IF v = "LAG_2D"
    THEN day_2D(quads, status, targets, today_ema_status,
                prev_quads, prev_status, positions, pending)
    ELSE IF v = "LAG_CURRENT"
    THEN day_CURRENT(quads, status, targets, today_ema_status,
                     prev_quads, prev_status, positions, pending)
    ELSE day_VOLWEIGHT(quads, status, targets, today_ema_status,
                       prev_quads, prev_status, positions, pending)

(***************************************************************************)
(* The specification: one action per backtest, one step per simulated day. *)
(* The tables are fixed before the loop starts; the loop reads the row of  *)
(* a date when that date is target_date, and ENTRY_LAG_CURRENT reads the   *)
(* price > EMA status of a date one iteration earlier, as today's.  So the *)
(* state keeps the status of the coming target_date, and a step draws the  *)
(* rest of that row and the status of its own date.                        *)
(***************************************************************************)
\* price_data.columns of the backtest v
Columns(v) == IF v = "VOLWEIGHT" THEN TickersVolweight ELSE Tickers

\* the day-loop specifications draw the rows of each date, they have no
\* downloaded history
NoHistory == [raw |-> << >>, T |-> 0, day |-> 0]

InitLoop ==
    /\ NoCalls
    /\ history = NoHistory
    /\ truncated = << >>
    /\ target_ema \in [Columns(variant) -> BOOLEAN]
    /\ prev_top_quads = None
    /\ prev_ema_status = << >>
    /\ actual_positions = [t \in Columns(variant) |-> Zero]
    /\ pending_entries = << >>
    /\ passed = [t \in Columns(variant) |-> 0]
    /\ ever_exited = {}
    /\ log = [rebalanced |-> FALSE, should_rebalance |-> FALSE,
              confirmed |-> {}, rejected |-> {}, created |-> {}, exited |-> {},
              targets |-> [t \in Columns(variant) |-> Zero],
              trigger_quads |-> None]

Init == variant \in EntryLagVariants /\ InitLoop

InitAll == variant \in Variants /\ InitLoop

\* one simulated day: yrow is the row of target_date, current_targets its
\* row of target_weights, today_ema the price > EMA status of the day
Day(yrow, current_targets, today_ema) ==
    \E r \in {loop_body(variant, yrow.quads, yrow.ema, current_targets, today_ema,
                        prev_top_quads, prev_ema_status,
                        actual_positions, pending_entries)} :
    \E exited \in {{t \in DOMAIN actual_positions :
                        IsPos(actual_positions[t]) /\ r.positions[t] = Zero}} :
        /\ actual_positions' = r.positions
        /\ pending_entries' = r.pending
        /\ prev_top_quads' = yrow.quads
        /\ prev_ema_status' = yrow.ema
        /\ target_ema' = today_ema
        /\ passed' = [t \in DOMAIN passed |->
                        IF t \in DOMAIN r.pending /\ t \notin r.created
                        THEN passed[t] + 1 ELSE 0]
        /\ ever_exited' = ever_exited \cup exited
        /\ log' = [rebalanced |-> r.rebalanced,
                   should_rebalance |-> r.should_rebalance,
                   confirmed |-> r.confirmed, rejected |-> r.rejected,
                   created |-> r.created, exited |-> exited,
                   targets |-> current_targets,
                   trigger_quads |-> IF r.rebalanced THEN yrow.quads
                                     ELSE log.trigger_quads]
        /\ UNCHANGED variant

Day2D ==
    /\ variant = "LAG_2D"
    /\ \E yrow \in RowsWith(target_ema), today_ema \in [Tickers -> BOOLEAN] :
         \E current_targets \in {calculate_target_weights(yrow, Tickers)} :
               Day(yrow, current_targets, today_ema)
    /\ UNCHANGED <<history, truncated, call_vars>>

DayCurrent ==
    /\ variant = "LAG_CURRENT"
    /\ \E yrow \in RowsWith(target_ema), today_ema \in [Tickers -> BOOLEAN] :
         \E current_targets \in {calculate_target_weights(yrow, Tickers)} :
               Day(yrow, current_targets, today_ema)
    /\ UNCHANGED <<history, truncated, call_vars>>

DayVolweight ==
    /\ variant = "VOLWEIGHT"
    /\ \E yrow \in RowsVolweightWith(target_ema),
          today_ema \in [TickersVolweight -> BOOLEAN] :
         \E current_targets \in
                 {calculate_target_weights_VOLWEIGHT(yrow, TickersVolweight)} :
               Day(yrow, current_targets, today_ema)
    /\ UNCHANGED <<history, truncated, call_vars>>

Next == Day2D \/ DayCurrent

Spec == Init /\ [][Next]_vars

NextAll == Day2D \/ DayCurrent \/ DayVolweight

SpecAll == InitAll /\ [][NextAll]_vars

TypeOK ==
    /\ variant \in Variants
    /\ target_ema \in [Columns(variant) -> BOOLEAN]
    /\ actual_positions \in [Columns(variant) -> Nat \X Nat]
    /\ DOMAIN pending_entries \subseteq Columns(variant)

(***************************************************************************)
(* fetch_data and the tables run_backtest builds before the loop, as       *)
(* functions of the downloaded prices.  A download is a function           *)
(* ticker -> date -> closing price, with 0 where the ticker has no row.    *)
(***************************************************************************)
\* constructor arguments, scaled down keeping the order of the defaults:
\* the entry-lag backtests have vol_lookback (30) <= momentum_days (50),
\* volweight has vol_lookback (60) > momentum_days (50)
momentum_days(v) == IF v = "VOLWEIGHT" THEN 1 ELSE 2

ema_period(v) == 2

vol_lookback(v) == 2

\* what yf.download returns for one ticker over n dates: no rows before the
\* ticker is listed, a price on every date after
Series(n) ==
    {s \in [0..(n - 1) -> 0..MaxPrice] : \A d \in 1..(n - 1) : s[d - 1] # 0 => s[d] # 0}

\* the downloads of a run over NumDays dates; IBIT (XLE for volweight) is
\* listed from the first date on
Downloads(v) ==
    {h \in [Columns(v) -> Series(NumDays)] :
        h[IF v = "VOLWEIGHT" THEN "XLE" ELSE "IBIT"][0] # 0}

\* the downloads of the same run with end_date right after date T
truncate(h, T) == [t \in DOMAIN h |-> [d \in 0..T |-> h[t][d]]]

\* the tickers kept by fetch_data: those whose download has rows
loaded(h) == {t \in DOMAIN h : \E d \in DOMAIN h[t] : h[t][d] # 0}

\* Series.ffill / Series.bfill at date d; `missing` is the NaN of the series
RECURSIVE ffill(_, _, _)
ffill(s, d, missing) ==
    IF s[d] # missing THEN s[d]
    ELSE IF d = 0 THEN missing ELSE ffill(s, d - 1, missing)

RECURSIVE bfill(_, _, _, _)
bfill(s, d, last, missing) ==
    IF s[d] # missing THEN s[d]
    ELSE IF d = last THEN missing ELSE bfill(s, d + 1, last, missing)

\* s.ffill().bfill() at date d
ffill_bfill(s, d, last, missing) ==
    IF ffill(s, d, missing) # missing THEN ffill(s, d, missing)
    ELSE bfill(s, d, last, missing)

\* self.price_data
price_data(h) ==
    [t \in loaded(h) |->
        [d \in DOMAIN h[t] |-> ffill_bfill(h[t], d, Cardinality(DOMAIN h[t]) - 1, 0)]]

\* the last date of the index of price_data
last_date(prices) == Cardinality(DOMAIN prices[CHOOSE t \in DOMAIN prices : TRUE]) - 1

RECURSIVE Pow(_, _)
Pow(b, e) == IF e = 0 THEN 1 ELSE b * Pow(b, e - 1)

\* ewm(span=span, adjust=False).mean() at date d, times (span + 1)^d
RECURSIVE ema_scaled(_, _, _)
ema_scaled(p, d, span) ==
    IF d = 0 THEN p[0]
    ELSE 2 * p[d] * Pow(span + 1, d - 1) + (span - 1) * ema_scaled(p, d - 1, span)

\* price > ema at date d
price_above_ema(p, d, span) == p[d] * Pow(span + 1, d) > ema_scaled(p, d, span)

\* the dictionary of price > EMA the loop builds for date d
ema_status(v, prices, d) ==
    [t \in DOMAIN prices |-> price_above_ema(prices[t], d, ema_period(v))]

\* a volatility that is NaN
NaN == <<0, 0>>

Abs(x) == IF x < 0 THEN 0 - x ELSE x

\* returns.rolling(window).std() * sqrt(252) at date d for a window of two
\* returns, in units of sqrt(126): |r[d] - r[d-1]| with r[d] = p[d]/p[d-1] - 1;
\* NaN while the window is not full
rolling_vol(p, d, window) ==
    IF d < window THEN NaN
    ELSE Rat(Abs(p[d] * p[d - 2] - p[d - 1] * p[d - 1]), p[d - 1] * p[d - 2])

\* self.volatility_data of one ticker at date d; volweight fills it with
\* ffill().bfill()
volatility_data(v, p, d, last) ==
    IF v = "VOLWEIGHT"
    THEN ffill_bfill([e \in 0..last |-> rolling_vol(p, e, vol_lookback(v))], d, last, NaN)
    ELSE rolling_vol(p, d, vol_lookback(v))

\* volatility_data.loc[d] on a common denominator; 0 for NaN
vol_row(v, prices, d) ==
    LET vols  == [t \in DOMAIN prices |->
                    volatility_data(v, prices[t], d, last_date(prices))]
        valid == {t \in DOMAIN prices : vols[t] # NaN}
        den   == [t \in valid |-> vols[t][2]]
    IN  [t \in DOMAIN prices |->
            IF t \in valid THEN vols[t][1] * ProdOver(valid \ {t}, den) ELSE 0]

\* pct_change(m) at date d
pct_change(p, d, m) == Rat(p[d] - p[d - m], p[d - m])

RatLess(x, y) == x[1] * y[2] < y[1] * x[2]

RECURSIVE RatSum(_, _)
RatSum(S, f) ==
    IF S = {} THEN Zero
    ELSE LET x == CHOOSE y \in S : TRUE IN RatAdd(f[x], RatSum(S \ {x}, f))

\* DataFrame.mean(axis=1) over the columns S
mean(S, f) == Rat(RatSum(S, f)[1], RatSum(S, f)[2] * Cardinality(S))

\* QUAD_INDICATORS of quad_portfolio_backtest_volweight.py, one indicator
\* per quadrant; of them XLE and XLU are downloaded
QUAD_INDICATORS_VOLWEIGHT ==
    [Q1 |-> {"QQQ"}, Q2 |-> {"XLE"}, Q3 |-> {"GLD"}, Q4 |-> {"XLU"}]

\* quad_scores.loc[d]: the entry-lag backtests score the quadrants that have
\* a loaded ticker; volweight scores every quadrant by its loaded indicators
\* (in percent), 0 if there are none
calculate_quad_scores(v, prices, d) ==
    LET momentum == [t \in DOMAIN prices |-> pct_change(prices[t], d, momentum_days(v))]
    IN  IF v = "VOLWEIGHT"
        THEN [q \in Quads |->
                LET scores == QUAD_INDICATORS_VOLWEIGHT[q] \cap DOMAIN prices
                IN  IF scores = {} THEN Zero
                    ELSE mean(scores, [t \in scores |->
                                Rat(100 * momentum[t][1], momentum[t][2])])]
        ELSE [q \in {c \in Quads : QUAD_ALLOCATIONS[c] \cap DOMAIN prices # {}} |->
                mean(QUAD_ALLOCATIONS[q] \cap DOMAIN prices, momentum)]

\* the position of the quadrants' columns in quad_scores
QuadColumn == [Q1 |-> 1, Q2 |-> 2, Q3 |-> 3, Q4 |-> 4]

\* sort_values(ascending=False) as a stable sort does it: a comes before b;
\* equal scores keep the order of the columns.  (The call leaves kind at its
\* default, which promises no order of equal scores: top_quads_outcomes.)
sorts_before(scores, a, b) ==
    \/ RatLess(scores[b], scores[a])
    \/ scores[a] = scores[b] /\ QuadColumn[a] < QuadColumn[b]

determine_top_quads(scores) ==
    LET rank(q) == Cardinality({a \in DOMAIN scores : a # q /\ sorts_before(scores, a, q)})
    IN  <<CHOOSE q \in DOMAIN scores : rank(q) = 0,
          CHOOSE q \in DOMAIN scores : rank(q) = 1>>

\* the rows of top_quads, of price > EMA and of volatility_data at date d
history_row(v, prices, d) ==
    [quads |-> determine_top_quads(calculate_quad_scores(v, prices, d)),
     ema   |-> ema_status(v, prices, d),
     vol   |-> vol_row(v, prices, d)]

\* target_weights.loc[d]
target_weights(v, prices, d) ==
    IF v = "VOLWEIGHT"
    THEN calculate_target_weights_VOLWEIGHT(history_row(v, prices, d), DOMAIN prices)
    ELSE calculate_target_weights(history_row(v, prices, d), DOMAIN prices)

(***************************************************************************)
(* run_backtest on a download, together with run_backtest on the same      *)
(* download cut off after date T.  Both runs walk the dates in step; the    *)
(* cut-off run ends at T.                                                   *)
(***************************************************************************)
InitHistory ==
    /\ NoCalls
    /\ variant \in Variants
    /\ \E h \in Downloads(variant), T \in momentum_days(variant)..(NumDays - 2) :
       \E prices \in {price_data(h)}, cut \in {price_data(truncate(h, T))} :
        /\ history = [raw |-> h, T |-> T, day |-> momentum_days(variant)]
        /\ truncated = [positions |-> [t \in DOMAIN cut |-> Zero],
                        pending |-> << >>,
                        prev_top_quads |-> None, prev_ema_status |-> << >>]
        /\ target_ema = ema_status(variant, prices, momentum_days(variant))
        /\ prev_top_quads = None
        /\ prev_ema_status = << >>
        /\ actual_positions = [t \in DOMAIN prices |-> Zero]
        /\ pending_entries = << >>
        /\ passed = [t \in DOMAIN prices |-> 0]
        /\ ever_exited = {}
        /\ log = [rebalanced |-> FALSE, should_rebalance |-> FALSE,
                  confirmed |-> {}, rejected |-> {}, created |-> {}, exited |-> {},
                  targets |-> [t \in DOMAIN prices |-> Zero],
                  trigger_quads |-> None]

\* one iteration of the cut-off run: date is history.day + 1, target_date is
\* history.day
day_truncated(cut) ==
    LET row == history_row(variant, cut, history.day)
        r   == loop_body(variant, row.quads, row.ema,
                         target_weights(variant, cut, history.day),
                         ema_status(variant, cut, history.day + 1),
                         truncated.prev_top_quads, truncated.prev_ema_status,
                         truncated.positions, truncated.pending)
    IN  [positions |-> r.positions, pending |-> r.pending,
         prev_top_quads |-> row.quads, prev_ema_status |-> row.ema]

DayHistory ==
    /\ DOMAIN history.raw # {}
    /\ history.day + 1 < NumDays
    /\ \E prices \in {price_data(history.raw)} :
       \E yrow \in {history_row(variant, prices, history.day)},
          today_ema \in {ema_status(variant, prices, history.day + 1)} :
       \E current_targets \in {target_weights(variant, prices, history.day)} :
            Day(yrow, current_targets, today_ema)
    /\ history' = [history EXCEPT !.day = @ + 1]
    /\ truncated' =
          IF history.day + 1 <= history.T
          THEN day_truncated(price_data(truncate(history.raw, history.T)))
          ELSE truncated
    /\ UNCHANGED call_vars

NextHistory == DayHistory

SpecHistory == InitHistory /\ [][NextHistory]_vars

(***************************************************************************)
(* Properties of the entry-lag day loop.  In a step, the unprimed          *)
(* variables are the loop's variables before the day, target_ema is the    *)
(* price > EMA status at target_date and target_ema' today's; the primed   *)
(* log holds the day's local variables.                                    *)
(***************************************************************************)
\* the lag each backtest is documented to apply
RequiredLag(v) == IF v = "LAG_2D" THEN 2 ELSE 1

\* the status the day's confirmation check reads
CheckedStatus == IF variant = "LAG_2D" THEN target_ema ELSE target_ema'

\* the position of t once the day's confirmed entries are applied
Entered(t) ==
    IF t \in log'.confirmed THEN pending_entries[t].weight ELSE actual_positions[t]

\* t has a pending entry that the day's check neither confirmed nor rejected
StillPending(t) ==
    t \in DOMAIN pending_entries /\ t \notin (log'.confirmed \cup log'.rejected)

\* C1: a pending entry is confirmed on the first daily check at which its
\* count of passing checks reaches the required lag (2 in ENTRY_LAG_2D, 1 in
\* ENTRY_LAG_CURRENT); days_waiting grows by exactly one on each passing
\* check; no entry is confirmed after fewer passing checks than the lag.
C1_ConfirmedAtRequiredLag ==
    [][ /\ log'.confirmed \subseteq DOMAIN pending_entries
        /\ \A t \in DOMAIN pending_entries :
            /\ t \in log'.confirmed =>
                  CheckedStatus[t] /\ passed[t] + 1 = RequiredLag(variant)
            /\ (CheckedStatus[t] /\ passed[t] + 1 >= RequiredLag(variant))
                  => t \in log'.confirmed
            /\ variant = "LAG_2D" => pending_entries[t].days_waiting = passed[t]
            /\ (variant = "LAG_2D" /\ CheckedStatus[t] /\ t \notin log'.confirmed)
                  => /\ t \in DOMAIN pending_entries'
                     /\ pending_entries'[t].days_waiting
                            = pending_entries[t].days_waiting + 1
      ]_vars

C1_Witness ==
    /\ variant = "LAG_2D"
    /\ \E t \in log.confirmed : IsPos(actual_positions[t])

\* C2: a pending entry whose trend check fails is removed and opens no
\* position; a pending entry the ticker has afterwards is a new one with
\* days_waiting = 0.
C2_RejectedIsDiscarded ==
    [][ \A t \in DOMAIN pending_entries :
            ~CheckedStatus[t] =>
                /\ t \in log'.rejected
                /\ t \notin log'.confirmed
                /\ actual_positions'[t] = Zero
                /\ t \in DOMAIN pending_entries' =>
                      /\ t \in log'.created
                      /\ pending_entries'[t].days_waiting = 0
                      /\ passed'[t] = 0
      ]_vars

C2_Witness ==
    \E t \in log.rejected : actual_positions[t] = Zero /\ t \notin DOMAIN pending_entries

\* C3: when the rebalance block runs, every ticker with target weight > 0,
\* zero position and no pending entry gets a pending entry with that weight
\* and days_waiting = 0, and no position; no pending entry is created for a
\* ticker that holds a position or has a pending entry.
C3_RebalanceCreatesPending ==
    [][ log'.rebalanced =>
          \A t \in Tickers :
            /\ (IsPos(log'.targets[t]) /\ Entered(t) = Zero /\ ~StillPending(t))
                  => /\ t \in DOMAIN pending_entries'
                     /\ pending_entries'[t] =
                            [weight |-> log'.targets[t], days_waiting |-> 0]
                     /\ actual_positions'[t] = Zero
            /\ t \in log'.created
                  => /\ IsPos(log'.targets[t])
                     /\ Entered(t) = Zero
                     /\ ~StillPending(t)
            /\ StillPending(t)
                  => /\ t \in DOMAIN pending_entries'
                     /\ pending_entries'[t].weight = pending_entries[t].weight
                     /\ pending_entries'[t].days_waiting > 0
      ]_vars

C3_Witness ==
    /\ log.rebalanced
    /\ \E t \in log.created :
          pending_entries[t] = [weight |-> log.targets[t], days_waiting |-> 0]
    /\ \E t \in DOMAIN pending_entries : t \notin log.created

\* C4: the positions that earn day T's return (those the loop body leaves in
\* actual_positions) are determined by data of day T-1's close and before:
\* whatever day T's own price > EMA status is, the loop body yields the same
\* positions.
C4_NoLookAhead ==
    [][ \A other_today \in [DOMAIN target_ema -> BOOLEAN] :
          loop_body(variant, prev_top_quads', prev_ema_status', log'.targets,
                    other_today, prev_top_quads, prev_ema_status,
                    actual_positions, pending_entries).positions
            = actual_positions'
      ]_vars

\* the weight of ticker t in a row of weights; a ticker that is not a
\* column has none
weight_of(w, t) == IF t \in DOMAIN w THEN w[t] ELSE Zero

\* C5: the run on a download and the run on the same download cut off after
\* date T have the same target weights, pending entries and positions at
\* every date up to T.
C5_NoFutureData ==
    (DOMAIN history.raw # {} /\ history.day <= history.T) =>
        /\ \A t \in DOMAIN history.raw :
              weight_of(target_weights(variant, price_data(history.raw), history.day), t)
                = weight_of(target_weights(variant,
                        price_data(truncate(history.raw, history.T)), history.day), t)
        /\ \A t \in DOMAIN history.raw :
              weight_of(actual_positions, t) = weight_of(truncated.positions, t)
        /\ pending_entries = truncated.pending

\* C6 as claimed: at the end of every simulated day, a ticker whose current
\* target weight is zero holds no position.
C6_ExitOnEveryDay ==
    \A t \in Tickers : log.targets[t] = Zero => actual_positions[t] = Zero

\* C6 as amended: on every day the rebalance block runs, a ticker whose
\* current target weight is zero ends the day without a position and
\* without a pending entry created for it.
C6_ExitOnRebalance ==
    [][ log'.rebalanced =>
          \A t \in Tickers :
            (log'.targets[t] = Zero /\ IsPos(Entered(t)))
                => actual_positions'[t] = Zero /\ t \notin log'.created
      ]_vars

C6_Witness ==
    log.rebalanced /\ \E t \in log.exited : log.targets[t] = Zero

\* C7: on the day a pending entry is confirmed, the ticker ends the day
\* with that day's current target weight.
C7_ConfirmedAtCurrentTarget ==
    \A t \in log.confirmed : actual_positions[t] = log.targets[t]

C7_Witness ==
    \E t \in log.confirmed : IsPos(actual_positions[t])

\* C8: the rebalance block runs exactly when it is the first simulated day,
\* or the quadrant pair differs from the pair of the previous triggering
\* day, or a ticker's price > EMA status differs from the previous day's,
\* or an entry was confirmed that day.
C8_RebalanceTriggers ==
    [][ log'.rebalanced <=>
          \/ prev_top_quads = None
          \/ prev_top_quads' # log.trigger_quads
          \/ \E t \in DOMAIN prev_ema_status :
                prev_ema_status'[t] # prev_ema_status[t]
          \/ log'.confirmed # {}
      ]_vars

C8_Witness ==
    /\ log.rebalanced /\ ~log.should_rebalance
    /\ prev_top_quads = log.trigger_quads

\* C9: on a day without a trigger and without a confirmed entry, every
\* position is unchanged and no pending entry is created.
NoTrigger ==
    /\ prev_top_quads # None
    /\ prev_top_quads' = prev_top_quads
    /\ prev_ema_status' = prev_ema_status
    /\ log'.confirmed = {}

C10_EntryOnlyByConfirmation ==
    [][ \A t \in Tickers :
          /\ (actual_positions[t] = Zero /\ IsPos(actual_positions'[t]))
                => t \in DOMAIN pending_entries /\ t \in log'.confirmed
          /\ IsPos(actual_positions'[t]) => t \notin DOMAIN pending_entries'
          /\ (IsPos(actual_positions[t]) /\ actual_positions'[t] = Zero)
                => t \notin DOMAIN pending_entries'
          /\ (t \in DOMAIN pending_entries' /\ t \notin DOMAIN pending_entries)
                => pending_entries'[t].days_waiting = 0 /\ passed'[t] = 0
      ]_vars

C10_Witness ==
    \E t \in ever_exited : t \in log.confirmed /\ IsPos(actual_positions[t])

\* C11: on a day the rebalance block runs, a ticker that holds a position
\* (held from before or entered by that day's confirmation) and has a
\* target weight > 0 ends the day at the new target weight, and no pending
\* entry is created for it.
C11_AdjustOnRebalance ==
    [][ log'.rebalanced =>
          \A t \in Tickers :
              (IsPos(Entered(t)) /\ IsPos(log'.targets[t])) =>
                  /\ actual_positions'[t] = log'.targets[t]
                  /\ t \notin log'.created
                  /\ t \notin DOMAIN pending_entries'
      ]_vars

\* a rebalance day on which a position held from before sits at its target
C11_Witness ==
    /\ log.rebalanced
    /\ \E t \in Tickers \ log.confirmed :
          /\ IsPos(actual_positions[t])
          /\ actual_positions[t] = log.targets[t]
          /\ t \notin log.created

\* quad1_weight + quad2_weight of the pair the day's targets were computed
\* for: 2.5 with Q1 in the pair, 2.0 without
total_leverage(quads) == Rat(quad_weight(quads[1]) + quad_weight(quads[2]), 2)

RatSub(x, y) == Rat(x[1] * y[2] - y[1] * x[2], x[2] * y[2])

\* the part of the pair's leverage that no open position holds
cash_fraction ==
    RatSub(total_leverage(prev_top_quads), RatSum(DOMAIN actual_positions, actual_positions))

\* C12: at the end of every simulated day the weights of the open positions
\* sum to no more than quad1_weight + quad2_weight of the selected pair,
\* so that the rest of that leverage, the cash fraction, is not negative.
C12_CashConservation ==
    prev_top_quads # None => cash_fraction[1] >= 0

\* a day that ends with an open position and part of the pair's leverage
\* unused, on which a position was exited
C12_Witness ==
    /\ prev_top_quads # None
    /\ \E t \in Tickers : IsPos(actual_positions[t])
    /\ cash_fraction[1] > 0
    /\ log.exited # {}

(***************************************************************************)
(* calculate_target_weights as a single call: the entry-lag backtests'     *)
(* (volatility / total_vol times quad_weight), SignalGenerator's (the same *)
(* weights, then the cut to max_positions) and the volweight backtest's    *)
(* (inverse volatility).  A call reads the selected pair, the price > EMA  *)
(* status and the volatilities of its date.                                *)
(***************************************************************************)
\* volatilities of a single call are 0 (none valid) .. MaxWeightVol
MaxWeightVol == 3

\* SignalGenerator(max_positions=10) everywhere; the model has fewer tickers
\* than that, so a call is also made with the lowest limit that cuts
max_positions == 10
LowMaxPositions == 1

\* SignalGenerator.quad_leverage, in halves
quad_leverage == [Q1 |-> 3, Q2 |-> 2, Q3 |-> 2, Q4 |-> 2]

\* the order of the keys of QUAD_ALLOCATIONS[quad]
AllocationOrder == [IBIT |-> 1, ETHA |-> 2]

RatMul(x, y) == Rat(x[1] * y[1], x[2] * y[2])

\* variant of vol_weights_SIGNAL that divides by the total volatility of the
\* tickers that pass the EMA filter
vol_weights_SIGNAL_redistributed(q, t, row, cols) ==
    Rat(row.vol[t] * quad_leverage[q],
        2 * SumOver({u \in quad_vols(q, row, cols) : row.ema[u]}, row.vol))

\* vol_weights[t] = (v / total_vol) * quad_leverage
vol_weights_SIGNAL(q, t, row, cols) ==
    Rat(row.vol[t] * quad_leverage[q], 2 * SumOver(quad_vols(q, row, cols), row.vol))

\* "Apply EMA filter"
admitted_SIGNAL(q, t, row, cols) ==
    IF t \in quad_vols(q, row, cols) /\ row.ema[t]
    THEN vol_weights_SIGNAL(q, t, row, cols) ELSE Zero

\* final_weights before "Filter to top N positions"
final_weights_SIGNAL(row, cols) ==
    [t \in cols |-> RatAdd(admitted_SIGNAL(row.quads[1], t, row, cols),
                           admitted_SIGNAL(row.quads[2], t, row, cols))]

\* the place of ticker t among the keys of final_weights: the tickers
\* admitted in top1 come first, each quadrant's in allocation order
inserted_at(t, row, cols) ==
    (IF IsPos(admitted_SIGNAL(row.quads[1], t, row, cols)) THEN 0
     ELSE Cardinality(cols)) + AllocationOrder[t]

\* sorted(final_weights.items(), key=weight, reverse=True): a stable sort,
\* equal weights keep the order of the keys
sorted_before(a, b, fw, row, cols) ==
    \/ RatLess(fw[b], fw[a])
    \/ fw[a] = fw[b] /\ inserted_at(a, row, cols) < inserted_at(b, row, cols)

\* variant of top_n_weights that sorts ascending: keeps the n lowest weights
top_n_weights_lowest(fw, row, cols, n) ==
    {t \in cols : /\ IsPos(fw[t])
                  /\ Cardinality({u \in cols : /\ IsPos(fw[u])
                                               /\ sorted_before(t, u, fw, row, cols)}) < n}

\* sorted_weights[:max_positions]
top_n_weights(fw, row, cols, n) ==
    {t \in cols : /\ IsPos(fw[t])
                  /\ Cardinality({u \in cols : /\ IsPos(fw[u])
                                               /\ sorted_before(u, t, fw, row, cols)}) < n}

\* SignalGenerator.calculate_target_weights with max_positions = n
calculate_target_weights_SIGNAL(row, cols, n) ==
    LET fw  == final_weights_SIGNAL(row, cols)
        top == top_n_weights(fw, row, cols, n)
        original_total == RatSum(cols, fw)
        new_total      == RatSum(top, fw)
    IN  IF n # 0 /\ Cardinality({t \in cols : IsPos(fw[t])}) > n
        THEN [t \in cols |->
                 IF t \in top
                 THEN RatMul(fw[t], Rat(original_total[1] * new_total[2],
                                        original_total[2] * new_total[1]))
                 ELSE Zero]
        ELSE fw

Implementations == {"ENTRY_LAG", "SIGNAL", "VOLWEIGHT"}

\* the inputs of a call of implementation i
WeightCalls(i) ==
    [impl : {i},
     row  : [quads : IF i = "ENTRY_LAG" THEN QuadPairs ELSE QuadPairsVolweight,
             ema   : [IF i = "VOLWEIGHT" THEN TickersVolweight ELSE Tickers -> BOOLEAN],
             vol   : [IF i = "VOLWEIGHT" THEN TickersVolweight ELSE Tickers
                         -> 0..MaxWeightVol]],
     max_positions : IF i = "SIGNAL" THEN {LowMaxPositions, max_positions} ELSE {0},
     admitted : {<< >>}, final : {<< >>}]

\* the loop variables of a state outside a backtest run
NoLoop ==
    /\ variant = None
    /\ target_ema = << >>
    /\ prev_top_quads = None
    /\ prev_ema_status = << >>
    /\ actual_positions = << >>
    /\ pending_entries = << >>
    /\ passed = << >>
    /\ ever_exited = {}
    /\ log = None
    /\ history = NoHistory
    /\ truncated = << >>

loop_vars == <<variant, target_ema, prev_top_quads, prev_ema_status, actual_positions,
               pending_entries, passed, ever_exited, log, history, truncated>>

InitWeights ==
    /\ NoLoop /\ NoLive
    /\ weights \in UNION {WeightCalls(i) : i \in Implementations}

CalculateEntryLag ==
    /\ weights.impl = "ENTRY_LAG" /\ weights.final = << >>
    /\ \E w \in {calculate_target_weights(weights.row, Tickers)} :
          weights' = [weights EXCEPT !.admitted = w, !.final = w]
    /\ UNCHANGED <<loop_vars, pending_file, night, morning, position, selection, other_calls>>

CalculateSignal ==
    /\ weights.impl = "SIGNAL" /\ weights.final = << >>
    /\ weights' = [weights EXCEPT
                     !.admitted = final_weights_SIGNAL(weights.row, Tickers),
                     !.final = calculate_target_weights_SIGNAL(
                                   weights.row, Tickers, weights.max_positions)]
    /\ UNCHANGED <<loop_vars, pending_file, night, morning, position, selection, other_calls>>

CalculateVolweight ==
    /\ weights.impl = "VOLWEIGHT" /\ weights.final = << >>
    /\ \E w \in {calculate_target_weights_VOLWEIGHT(weights.row, TickersVolweight)} :
          weights' = [weights EXCEPT !.admitted = w, !.final = w]
    /\ UNCHANGED <<loop_vars, pending_file, night, morning, position, selection, other_calls>>

NextWeights == CalculateEntryLag \/ CalculateSignal \/ CalculateVolweight

SpecWeights == InitWeights /\ [][NextWeights]_vars

\* the pre-truncation weights implementation i computes from row
admitted_weights(i, row) ==
    IF i = "ENTRY_LAG" THEN calculate_target_weights(row, Tickers)
    ELSE IF i = "SIGNAL" THEN final_weights_SIGNAL(row, Tickers)
    ELSE calculate_target_weights_VOLWEIGHT(row, TickersVolweight)

\* what implementation i admits for ticker t in quadrant q alone
admitted_in(i, q, t, row) ==
    IF i = "ENTRY_LAG" THEN admitted(q, t, row, Tickers)
    ELSE IF i = "SIGNAL" THEN admitted_SIGNAL(q, t, row, Tickers)
    ELSE admitted_VOLWEIGHT(q, t, row, TickersVolweight)

\* the quadrant's tickers with valid volatility, and its leverage
\* multiplier in halves
valid_vols(i, q, row) ==
    {u \in (IF i = "VOLWEIGHT" THEN QUAD_ALLOCATIONS_VOLWEIGHT[q]
            ELSE QUAD_ALLOCATIONS[q]) \cap DOMAIN row.vol : row.vol[u] > 0}

multiplier(i, q) == IF i # "VOLWEIGHT" /\ q = "Q1" THEN 3 ELSE 2

\* (volatility / sum of the valid volatilities) times the multiplier; in
\* the inverse-volatility variant with 1/volatility for volatility
claimed_share(i, q, t, row) ==
    IF i = "VOLWEIGHT"
    THEN LET S == valid_vols(i, q, row)
             total == RatSum(S, [u \in S |-> Rat(1, row.vol[u])])
         IN  Rat(total[2] * multiplier(i, q), 2 * row.vol[t] * total[1])
    ELSE Rat(row.vol[t] * multiplier(i, q), 2 * SumOver(valid_vols(i, q, row), row.vol))

claimed_weight(i, q, t, row) ==
    IF t \in valid_vols(i, q, row) /\ row.ema[t]
    THEN claimed_share(i, q, t, row) ELSE Zero

ValidFile(entries) == [state |-> "valid", entries |-> entries]

\* what open(file, 'w') followed by an unfinished json.dump leaves: an
\* empty file or a prefix of the JSON text, which json.load rejects
PartialFile == [state |-> "partial", entries |-> << >>]

\* load_pending: the entries of the file; none if the file is missing or
\* json.load raises
load_pending(file) == IF file.state = "valid" THEN file.entries ELSE << >>

\* save_pending, run to its end
save_pending(file, entries) == ValidFile(entries)

\* save_pending with a crash of the process: before open(), between
\* open() and the end of json.dump, or after the file was written
save_pending_crashed(file, entries) == {file, PartialFile, ValidFile(entries)}

\* SignalGenerator.generate_signals: the returned dictionary has the keys
\* top_quadrants, quadrant_scores, target_weights, current_regime, timestamp
\* and total_leverage
generate_signals(row) ==
    [top_quadrants  |-> row.quads,
     target_weights |-> calculate_target_weights_SIGNAL(row, Tickers, max_positions)]

\* signals.get('atr_data', {}).get(ticker, None)
atr_of(signals, t) ==
    IF "atr_data" \in DOMAIN signals /\ t \in DOMAIN signals.atr_data
    THEN signals.atr_data[t] ELSE None

\* add_pending_entries: the new entries replace the old ones
add_pending_entries(signals) ==
    [t \in {u \in DOMAIN signals.target_weights : IsPos(signals.target_weights[u])} |->
        [weight |-> signals.target_weights[t], atr |-> atr_of(signals, t)]]

\* the morning's data of a ticker: price above its EMA, not above (or NaN),
\* no column for the ticker, or a column whose lookup raises (no rows)
MarketData == [Tickers -> {"above", "below", "missing", "error"}]

\* confirm_and_get_entries: confirmed iff current_price > current_ema
confirmed_entries(entries, market) ==
    [t \in {u \in DOMAIN entries : market[u] = "above"} |-> entries[t]]

\* the loop with `continue` and `except` recording nothing
rejected_entries_unrecorded(entries, market) ==
    {t \in DOMAIN entries : market[t] = "below"}

\* rejected: BELOW_EMA, NO_DATA when the price or the EMA is None, and
\* ERROR when the try block raises; the loop goes on to the next entry
rejected_entries(entries, market) ==
    {t \in DOMAIN entries : market[t] # "above"}

\* `confirmed_entries, rejected_entries = confirm_and_get_entries(...)`:
\* the call returns the one dictionary of confirmed entries, so the
\* assignment unpacks its keys: ValueError unless there are exactly two;
\* with two, confirmed_entries is a ticker string and .items() raises
unpack_error(confirmed) ==
    IF Cardinality(DOMAIN confirmed) # 2 THEN "ValueError" ELSE "AttributeError"

\* confirm_and_execute_morning up to the return of confirm_and_get_entries,
\* which clears the entries and saves the file
confirm_and_get_entries(file, market, dry_run) ==
    LET entries == load_pending(file)
    IN  [file    |-> IF DOMAIN entries = {} THEN file ELSE save_pending(file, << >>),
         morning |-> [NoMorning EXCEPT
                        !.ran = TRUE, !.dry_run = dry_run, !.market = market,
                        !.loaded = entries,
                        !.confirmed = confirmed_entries(entries, market),
                        !.rejected = rejected_entries(entries, market)]]

\* confirm_and_execute_morning: without pending orders it returns at once;
\* else the unpacking fails and the except clause ends the run before the
\* target weights are built
confirm_and_execute_morning(file, market, dry_run) ==
    LET r == confirm_and_get_entries(file, market, dry_run)
    IN  IF DOMAIN r.morning.loaded = {} THEN r
        ELSE [r EXCEPT !.morning.error = unpack_error(r.morning.confirmed)]

InitLive == NoLoop /\ weights = NoWeights /\ NoLive

\* the rows a night's signals are computed from
SignalRows == [quads : QuadPairsVolweight, ema : [Tickers -> BOOLEAN],
               vol : [Tickers -> 0..MaxVol]]

\* the pending entries a night run can save
NightEntries == {add_pending_entries(generate_signals(row)) : row \in SignalRows}

\* generate_signals_night
NightRun ==
    /\ \E new \in NightEntries :
          /\ pending_file' = save_pending(pending_file, new)
          /\ night' = [ran |-> TRUE, crashed |-> FALSE,
                       previous |-> load_pending(pending_file), new_entries |-> new]
    /\ morning' = NoMorning
    /\ UNCHANGED <<loop_vars, weights, position, selection, other_calls>>

\* generate_signals_night, the process dies in save_pending
NightRunCrash ==
    /\ \E new \in NightEntries :
          /\ pending_file' \in save_pending_crashed(pending_file, new)
          /\ night' = [ran |-> TRUE, crashed |-> TRUE,
                       previous |-> load_pending(pending_file), new_entries |-> new]
    /\ morning' = NoMorning
    /\ UNCHANGED <<loop_vars, weights, position, selection, other_calls>>

MorningRun ==
    /\ \E market \in MarketData, dry_run \in BOOLEAN :
       \E r \in {confirm_and_execute_morning(pending_file, market, dry_run)} :
          /\ pending_file' = r.file
          /\ morning' = r.morning
    /\ UNCHANGED <<loop_vars, weights, night, position, selection, other_calls>>

\* confirm_and_execute_morning, the process dies after
\* confirm_and_get_entries has returned and before the execution
MorningRunCrash ==
    /\ DOMAIN load_pending(pending_file) # {}
    /\ \E market \in MarketData, dry_run \in BOOLEAN :
       \E r \in {confirm_and_get_entries(pending_file, market, dry_run)} :
          /\ pending_file' = r.file
          /\ morning' = [r.morning EXCEPT !.crashed = TRUE]
    /\ UNCHANGED <<loop_vars, weights, night, position, selection, other_calls>>

NextLive == NightRun \/ NightRunCrash \/ MorningRun \/ MorningRunCrash

SpecLive == InitLive /\ [][NextLive]_vars

(***************************************************************************)
(* The ENTRY_LAG_CURRENT backtest and the live two-phase run side by side  *)
(* on the same data: on each date the backtest's iteration and the live    *)
(* morning run see the same price > EMA status, and the live night run     *)
(* saves the target weights the iteration computed.                        *)
(***************************************************************************)
InitRefine == variant = "LAG_CURRENT" /\ InitLoop

\* the morning's data with the price > EMA status of today_ema
market_of(today_ema) ==
    [t \in DOMAIN today_ema |-> IF today_ema[t] THEN "above" ELSE "below"]

\* a date: the backtest's iteration and the live morning run
RefineDay ==
    /\ ~ morning.ran
    /\ \E yrow \in RowsWith(target_ema), today_ema \in [Tickers -> BOOLEAN] :
       \E current_targets \in {calculate_target_weights(yrow, Tickers)} :
       \E r \in {confirm_and_execute_morning(pending_file, market_of(today_ema), FALSE)} :
          /\ Day(yrow, current_targets, today_ema)
          /\ pending_file' = r.file
          /\ morning' = r.morning
    /\ UNCHANGED <<history, truncated, weights, night, position, selection, other_calls>>

\* the night of the date: the live night run on the date's target weights
RefineNight ==
    /\ morning.ran
    /\ \E new \in {add_pending_entries([target_weights |-> log.targets])} :
          /\ pending_file' = save_pending(pending_file, new)
          /\ night' = [ran |-> TRUE, crashed |-> FALSE,
                       previous |-> load_pending(pending_file), new_entries |-> new]
    /\ morning' = NoMorning
    /\ UNCHANGED <<loop_vars, weights, position, selection, other_calls>>

NextRefine == RefineDay \/ RefineNight

SpecRefine == InitRefine /\ [][NextRefine]_vars

\* the weights of the entries the live morning run confirmed
confirmed_weights == [t \in DOMAIN morning.confirmed |-> morning.confirmed[t].weight]

\* C14 as stated: on every date the live morning run confirms and rejects
\* the tickers the backtest's iteration confirms and rejects, and the weights
\* of its confirmed entries are the weights the backtest holds.
C14_LiveRefinesBacktest ==
    morning.ran =>
        /\ DOMAIN morning.confirmed = log.confirmed
        /\ morning.rejected = log.rejected
        /\ \A t \in Tickers : weight_of(confirmed_weights, t) = actual_positions[t]

\* C15 as stated: a morning run that follows one that died after the
\* confirmation and before the execution, on the same price and EMA data,
\* returns the confirmed entries the first one returned.
C15_RerunYieldsConfirmed ==
    [][ (/\ morning.crashed /\ DOMAIN morning.confirmed # {}
         /\ morning'.ran /\ ~ morning'.crashed
         /\ morning'.market = morning.market)
        => morning'.confirmed = morning.confirmed
      ]_vars

\* C16 as stated: the first load_pending after a night run that died in
\* save_pending returns the complete previous entries or the complete new
\* ones.
C16_AtomicSave ==
    [][ (night.crashed /\ ~ morning.ran /\ morning'.ran)
        => morning'.loaded \in {night.previous, night.new_entries}
      ]_vars

\* C17 as stated: a morning run with trading enabled and a confirmed entry
\* calls execute_rebalance with exactly the confirmed tickers, each at its
\* pending weight.
C17_ExecutesConfirmed ==
    (/\ morning.ran /\ ~ morning.crashed /\ ~ morning.dry_run
     /\ DOMAIN morning.confirmed # {})
    => /\ morning.executed
       /\ morning.target_weights = confirmed_weights

\* C18 as stated: every confirmed entry of a morning run carries an ATR
\* value for its stop, and no rejected ticker has an ATR value among those
\* passed to the execution.
C18_StopsForConfirmed ==
    (morning.ran /\ ~ morning.crashed)
    => /\ \A t \in DOMAIN morning.confirmed : morning.confirmed[t].atr # None
       /\ DOMAIN morning.atr_data \cap morning.rejected = {}

(***************************************************************************)
(* The stop of one position, from StrategyInitializer's analysis (entry    *)
(* price and ATR of the backtest's entry, stop = entry - 2 ATR) over the   *)
(* entry order at the current price and the operator's manual entry at the *)
(* broker to ManualPositionSync's position_state.json and the rebalances   *)
(* of IBExecutor.  Prices are whole numbers.                               *)
(***************************************************************************)
\* entry and market prices are 1..MaxStopPrice, the ATR at entry 0..MaxAtr
MaxStopPrice == 4
MaxAtr == 1

\* `stop_price = entry_price - (entry_atr * 2.0)`
AtrMultiple == 2

\* get_current_positions_with_stops, one ticker with entry tracking
positions_with_stops(entry_price, entry_atr) ==
    [NoPosition EXCEPT !.stage = "tracked", !.entry_price = entry_price,
                       !.atr = entry_atr,
                       !.expected_stop = entry_price - entry_atr * AtrMultiple,
                       !.has_stop = TRUE,
                       !.stop_price = entry_price - entry_atr * AtrMultiple,
                       !.price = entry_price]

\* check_stops_not_hit: min_price is the lowest close since the entry, 0 if
\* no price came back
check_stops_not_hit(info, min_price) ==
    IF min_price # 0 /\ min_price <= info.stop_price
    THEN [info EXCEPT !.stage = "stopped"]
    ELSE [info EXCEPT !.stage = "valid"]

\* variant of entry_order_stop that places the stop 2 ATR under the
\* current price
entry_order_stop_repriced(info, current_price) ==
    current_price - info.atr * AtrMultiple

\* calculate_entry_orders: `historical_stop = info['stop_price']`
entry_order_stop(info, current_price) == info.stop_price

calculate_entry_orders(info, current_price) ==
    [info EXCEPT !.stage = "ordered", !.price = current_price,
                 !.stop_price = entry_order_stop(info, current_price)]

\* match_and_create_state: the stop of the broker's stop order if there is
\* one, else the expected stop if the backtest has the position, else none
match_and_create_state(pos, expected_found) ==
    IF pos.has_stop THEN [pos EXCEPT !.stage = "synced"]
    ELSE IF expected_found
    THEN [pos EXCEPT !.stage = "synced", !.has_stop = TRUE,
                     !.stop_price = pos.expected_stop]
    ELSE [pos EXCEPT !.stage = "synced"]

InitStops == NoLoop /\ weights = NoWeights /\ NoLive

stops_others == <<loop_vars, weights, pending_file, night, morning, selection, other_calls>>

GetCurrentPositionsWithStops ==
    /\ position.stage \in {"none", "stopped", "closed"}
    /\ \E entry_price \in 1..MaxStopPrice, entry_atr \in 0..MaxAtr :
          position' = positions_with_stops(entry_price, entry_atr)
    /\ UNCHANGED stops_others

CheckStopsNotHit ==
    /\ position.stage = "tracked"
    /\ \E min_price \in 0..MaxStopPrice :
          position' = check_stops_not_hit(position, min_price)
    /\ UNCHANGED stops_others

CalculateEntryOrders ==
    /\ position.stage = "valid"
    /\ \E current_price \in 1..MaxStopPrice :
          position' = calculate_entry_orders(position, current_price)
    /\ UNCHANGED stops_others

\* the operator enters the position at the broker at the current price,
\* with a stop order at some price or (stop_order = 0) without one
ManualEntry ==
    /\ position.stage = "ordered"
    /\ \E stop_order \in 0..MaxStopPrice :
          position' = [position EXCEPT !.stage = "entered",
                                       !.has_stop = stop_order # 0,
                                       !.stop_price = stop_order]
    /\ UNCHANGED stops_others

MatchAndCreateState ==
    /\ position.stage = "entered"
    /\ \E expected_found \in BOOLEAN :
          position' = match_and_create_state(position, expected_found)
    /\ UNCHANGED stops_others

\* execute_rebalance: a position not in the targets is closed, one in the
\* targets is re-sized at the market price; no order of it is a stop order
ExecuteRebalance ==
    /\ position.stage = "synced"
    /\ \E in_target \in BOOLEAN, market_price \in 1..MaxStopPrice :
          position' = IF in_target THEN [position EXCEPT !.price = market_price]
                      ELSE [position EXCEPT !.stage = "closed"]
    /\ UNCHANGED stops_others

NextStops ==
    \/ GetCurrentPositionsWithStops \/ CheckStopsNotHit \/ CalculateEntryOrders
    \/ ManualEntry \/ MatchAndCreateState \/ ExecuteRebalance

SpecStops == InitStops /\ [][NextStops]_vars

\* C19: a step of the program on an open position that has a stop (the
\* check of the stop, the entry order at the current price, the sync with
\* the broker, a rebalance that keeps the position) leaves stop_price as it
\* was; the stop changes only when the position is closed, stopped out or
\* entered anew, or when the operator places the stop order at the broker.
C19_StopIsStatic ==
    [][ (/\ position.has_stop
         /\ position'.stage \notin {"tracked", "stopped", "closed", "entered"})
        => position'.has_stop /\ position'.stop_price = position.stop_price
      ]_vars

\* a synced position whose price has moved away from its entry price still
\* has the stop 2 ATR under the entry price
C19_Witness ==
    /\ position.stage = "synced" /\ position.has_stop
    /\ position.atr > 0
    /\ position.price # position.entry_price
    /\ position.stop_price = position.entry_price - position.atr * AtrMultiple
    /\ position.stop_price # position.price - position.atr * AtrMultiple

(***************************************************************************)
(* determine_top_quads / get_top_quadrants as a single call.  The scores   *)
(* are sorted by sort_values(ascending=False) with the default kind        *)
(* ('quicksort'), which is not a stable sort: the order it leaves equal    *)
(* scores in is not specified and differs between builds of numpy, so a    *)
(* call may return any pair that is in descending order of score.          *)
(***************************************************************************)
\* scores are 0..MaxScore
MaxScore == 2

\* the score rows of a date: the entry-lag backtests score the quadrants
\* with tickers, volweight and SignalGenerator all four
ScoreRows ==
    [ScoredQuads -> {Rat(n, 1) : n \in 0..MaxScore}]
        \cup [Quads -> {Rat(n, 1) : n \in 0..MaxScore}]

\* scores.index[0], scores.index[1] after the sort, in any order of the
\* equal scores
top_quads_outcomes(scores) ==
    {p \in (DOMAIN scores) \X (DOMAIN scores) :
        /\ p[1] # p[2]
        /\ \A q \in DOMAIN scores \ {p[1]} : ~ RatLess(scores[p[1]], scores[q])
        /\ \A q \in DOMAIN scores \ {p[1], p[2]} : ~ RatLess(scores[p[2]], scores[q])}

InitTopQuads ==
    /\ NoLoop /\ weights = NoWeights
    /\ pending_file = MissingFile /\ night = NoNight /\ morning = NoMorning
    /\ position = NoPosition /\ NoOtherCalls
    /\ \E scores \in ScoreRows : selection = [scores |-> scores, pair |-> << >>]

DetermineTopQuads ==
    /\ selection.pair = << >>
    /\ \E p \in top_quads_outcomes(selection.scores) :
          selection' = [selection EXCEPT !.pair = p]
    /\ UNCHANGED <<loop_vars, weights, pending_file, night, morning, position, other_calls>>

NextTopQuads == DetermineTopQuads

SpecTopQuads == InitTopQuads /\ [][NextTopQuads]_vars

\* C20 as stated: the selected pair are two distinct quadrants with the
\* highest and the second-highest score, and among equal scores the pair is
\* the one a fixed priority order of the quadrants (Q1, Q2, Q3, Q4) gives.
C20_FixedPriority ==
    selection.pair # << >> =>
        /\ selection.pair[1] # selection.pair[2]
        /\ ~ RatLess(selection.scores[selection.pair[1]],
                     selection.scores[selection.pair[2]])
        /\ selection.pair = determine_top_quads(selection.scores)

(***************************************************************************)
(* The quadrant scores of a date of the run.                               *)
(***************************************************************************)
\* quad_scores.loc[target_date] of the run on the download
scores_of_day == calculate_quad_scores(variant, price_data(history.raw), history.day)

\* C21 as stated: on every date after the warmup window each of the four
\* quadrants has a score, and the score is a number (0 for a quadrant with
\* no scoring ticker with data), never missing and never NaN.
C21_FourQuadrantsScored ==
    history.raw # << >> =>
        \A q \in Quads : q \in DOMAIN scores_of_day /\ scores_of_day[q] # NaN

\* the rolling window of returns of ticker t is not yet full on the date
window_not_full(t) ==
    rolling_vol(price_data(history.raw)[t], history.day, vol_lookback(variant)) = NaN

\* C22 as stated: in every variant, a ticker whose rolling-volatility window
\* is not yet full on a date is treated as having no volatility on that date:
\* it gets target weight zero on it.
C22_NoWeightBeforeWindowFull ==
    history.raw # << >> =>
        \A t \in DOMAIN price_data(history.raw) :
            window_not_full(t) =>
                weight_of(target_weights(variant, price_data(history.raw), history.day), t)
                    = Zero

\* C23: in a morning run's confirmation, a pending entry whose price or EMA
\* is missing, or whose check raises, is rejected and not confirmed; the
\* other entries are still evaluated (confirmed iff price above EMA); every
\* pending entry is in exactly one of confirmed and rejected.
C23_MissingDataRejected ==
    morning.ran =>
        /\ DOMAIN morning.confirmed \cap morning.rejected = {}
        /\ DOMAIN morning.confirmed \cup morning.rejected = DOMAIN morning.loaded
        /\ \A t \in DOMAIN morning.loaded :
              /\ morning.market[t] \in {"missing", "error"} => t \in morning.rejected
              /\ morning.market[t] = "above" => t \in DOMAIN morning.confirmed
              /\ morning.market[t] = "below" => t \in morning.rejected

\* a morning run with two pending entries: the check of one raises and it
\* is rejected, the other is confirmed
C23_Witness ==
    /\ morning.ran
    /\ DOMAIN morning.loaded = Tickers
    /\ \E t \in Tickers : morning.market[t] = "error" /\ t \in morning.rejected
    /\ \E t \in Tickers : morning.market[t] = "above" /\ t \in DOMAIN morning.confirmed

(***************************************************************************)
(* IBExecutor.execute_rebalance as a single call on an account: the        *)
(* positions the broker reports, the target sizes in contracts, and for    *)
(* each ticker what the broker calls on it do.  (position_manager is       *)
(* None: orders are placed by place_order.)                                *)
(***************************************************************************)
\* strategy_config.py
IGNORE_TICKERS == {"PLTR"}
MANAGED_CONTRACT_TYPES == {"STK", "CFD"}
IGNORED_CONTRACT_TYPES == {"OPT", "FUT", "FOP", "WAR", "IOPT"}

\* the symbols at the broker: the strategy's tickers and the discretionary one
BrokerSymbols == Tickers \cup IGNORE_TICKERS

\* target quantities are 0..MaxQuantity
MaxQuantity == 1

\* ib.positions() of one symbol: nothing, a long CFD of one or two
\* contracts, a short CFD, or an option
BrokerPositions ==
    {[quantity |-> 0, secType |-> "CFD"], [quantity |-> 1, secType |-> "CFD"],
     [quantity |-> 2, secType |-> "CFD"], [quantity |-> 0 - 1, secType |-> "CFD"],
     [quantity |-> 1, secType |-> "OPT"]}

\* what the broker calls on a ticker do: they work, create_cfd_contract
\* returns None, get_market_price returns None, or a call raises
BrokerOutcomes == {"ok", "unqualified", "no_price", "exception"}

\* target_sizes as target quantities int(round(target_notional / price))
TargetSizes == UNION {[S -> 0..MaxQuantity] : S \in SUBSET BrokerSymbols}

\* get_current_positions: symbol -> quantity of the non-zero positions that
\* are not ignored and of a managed contract type
get_current_positions(account) ==
    [s \in {u \in DOMAIN account :
               /\ account[u].quantity # 0
               /\ u \notin IGNORE_TICKERS
               /\ account[u].secType \notin IGNORED_CONTRACT_TYPES
               /\ account[u].secType \in MANAGED_CONTRACT_TYPES} |->
        account[s].quantity]

\* the first loop: the positions that are not in the targets
to_close(ib_positions, target_sizes) == DOMAIN ib_positions \ DOMAIN target_sizes

\* the order of the first loop for ticker t, on the CFD contract of
\* create_cfd_contract; none if the contract is None or a call raises
close_orders(t, ib_positions, outcome) ==
    IF outcome[t] \in {"unqualified", "exception"} THEN {}
    ELSE {[ticker |-> t, secType |-> "CFD", quantity |-> Abs(ib_positions[t]),
           action |-> IF ib_positions[t] > 0 THEN "SELL" ELSE "BUY"]}

\* ib_positions.get(ticker, 0)
current_quantity(t, ib_positions) == IF t \in DOMAIN ib_positions THEN ib_positions[t] ELSE 0

\* the order of the second loop for ticker t; `continue` without contract,
\* without price or with target quantity 0, no order if the position is at
\* its target or a call raises
adjust_orders(t, ib_positions, target_sizes, outcome) ==
    IF outcome[t] # "ok" \/ target_sizes[t] <= 0 THEN {}
    ELSE IF target_sizes[t] = current_quantity(t, ib_positions) THEN {}
    ELSE {[ticker |-> t, secType |-> "CFD",
           quantity |-> Abs(target_sizes[t] - current_quantity(t, ib_positions)),
           action |-> IF target_sizes[t] > current_quantity(t, ib_positions)
                      THEN "BUY" ELSE "SELL"]}

\* the tickers on which the call failed: no contract or an exception in
\* either loop, no price in the second
failed_tickers(ib_positions, target_sizes, outcome) ==
    {t \in to_close(ib_positions, target_sizes) : outcome[t] \in {"unqualified", "exception"}}
        \cup {t \in DOMAIN target_sizes : outcome[t] # "ok"}

\* execute_rebalance: the orders placed; the call returns executed_trades,
\* the list of the trades of these orders
execute_rebalance(account, target_sizes, outcome) ==
    LET ib_positions == get_current_positions(account)
        orders == UNION ({close_orders(t, ib_positions, outcome) :
                               t \in to_close(ib_positions, target_sizes)}
                         \cup {adjust_orders(t, ib_positions, target_sizes, outcome) :
                               t \in DOMAIN target_sizes})
    IN  [called |-> TRUE, done |-> TRUE, account |-> account,
         target_sizes |-> target_sizes, outcome |-> outcome,
         orders |-> orders,
         failed |-> failed_tickers(ib_positions, target_sizes, outcome),
         executed_trades |-> orders]

InitExecution ==
    /\ NoLoop /\ weights = NoWeights
    /\ pending_file = MissingFile /\ night = NoNight /\ morning = NoMorning
    /\ position = NoPosition /\ selection = NoSelection
    /\ adjustment = NoAdjustment /\ bootstrap = NoBootstrap
    /\ \E account \in [BrokerSymbols -> BrokerPositions], target_sizes \in TargetSizes,
          outcome \in [BrokerSymbols -> BrokerOutcomes] :
          execution = [called |-> TRUE, done |-> FALSE, account |-> account,
                       target_sizes |-> target_sizes, outcome |-> outcome]

CallExecuteRebalance ==
    /\ execution.called /\ ~ execution.done
    /\ execution' = execute_rebalance(execution.account, execution.target_sizes,
                                      execution.outcome)
    /\ UNCHANGED <<loop_vars, weights, pending_file, night, morning, position, selection,
                   adjustment, bootstrap>>

NextExecution == CallExecuteRebalance

SpecExecution == InitExecution /\ [][NextExecution]_vars

\* the tickers the two loops have to handle, and the order a ticker needs
\* when all broker calls on it work
orders_needed(t) ==
    LET ib_positions == get_current_positions(execution.account)
        all_ok == [s \in BrokerSymbols |-> "ok"]
    IN  IF t \in DOMAIN execution.target_sizes
        THEN adjust_orders(t, ib_positions, execution.target_sizes, all_ok)
        ELSE IF t \in DOMAIN ib_positions THEN close_orders(t, ib_positions, all_ok)
        ELSE {}

\* a ticker on which every broker call works gets the order it needs,
\* whatever happens on the other tickers
OthersProcessed ==
    (execution.called /\ execution.done) =>
        \A t \in BrokerSymbols :
            execution.outcome[t] = "ok" => orders_needed(t) \subseteq execution.orders

\* C24 as stated: a failure on one ticker keeps no other ticker from being
\* processed, and the caller gets the number of failed tickers: calls on the
\* same account and targets that return the same value have failed on the
\* same number of tickers.
C24_ErrorCountSurfaced ==
    (execution.called /\ execution.done) =>
        /\ OthersProcessed
        /\ \A outcome \in [BrokerSymbols -> BrokerOutcomes] :
              \A r \in {execute_rebalance(execution.account, execution.target_sizes, outcome)} :
                 r.executed_trades = execution.executed_trades
                     => Cardinality(r.failed) = Cardinality(execution.failed)

\* C27 as stated: whatever the target weights, execute_rebalance places no
\* order for a ticker of IGNORE_TICKERS, none on a contract of a type that
\* is not managed, and no closing order for a position of such a type.
C27_IgnoredNeverTraded ==
    (execution.called /\ execution.done) =>
        \A o \in execution.orders :
            /\ o.ticker \notin IGNORE_TICKERS
            /\ o.secType \in MANAGED_CONTRACT_TYPES
            /\ o.ticker \notin DOMAIN execution.target_sizes
                  => execution.account[o.ticker].secType \in MANAGED_CONTRACT_TYPES

\* the tickers with a positive weight in w
positive(w) == {t \in DOMAIN w : IsPos(w[t])}

\* C25: when more tickers pass the trend filter than max_positions, the
\* final weights of SignalGenerator.calculate_target_weights hold exactly
\* max_positions tickers, no dropped ticker had a higher weight than a kept
\* one, and the kept weights sum to the total of the weights before the cut.
C25_TopNRescaled ==
    (/\ weights.impl = "SIGNAL" /\ weights.final # << >>
     /\ Cardinality(positive(weights.admitted)) > weights.max_positions) =>
        /\ Cardinality(positive(weights.final)) = weights.max_positions
        /\ positive(weights.final) \subseteq positive(weights.admitted)
        /\ \A t \in positive(weights.final) :
              \A u \in positive(weights.admitted) \ positive(weights.final) :
                 ~ RatLess(weights.admitted[t], weights.admitted[u])
        /\ RatSum(DOMAIN weights.final, weights.final)
              = RatSum(DOMAIN weights.admitted, weights.admitted)

\* a call with max_positions 1 in which both tickers pass the filter with
\* different weights and the lower one is dropped
C25_Witness ==
    /\ weights.impl = "SIGNAL" /\ weights.final # << >>
    /\ weights.max_positions = LowMaxPositions
    /\ positive(weights.admitted) = Tickers
    /\ weights.admitted["IBIT"] # weights.admitted["ETHA"]
    /\ Cardinality(positive(weights.final)) = 1

(***************************************************************************)
(* MonteCarloBacktest._bootstrap_block_returns as a single call: the       *)
(* return series, the block size and the block indices np.random.randint   *)
(* draws.                                                                  *)
(***************************************************************************)
\* series have up to MaxLen returns, each in 0..MaxReturn; block sizes are
\* 1..MaxBlock
MaxLen == 3
MaxReturn == 2
MaxBlock == 4

ReturnSeries == UNION {[1..n -> 0..MaxReturn] : n \in 0..MaxLen}

\* blocks: the n // block_size full blocks, then the remaining returns
blocks_of(returns, block_size) ==
    LET n == Len(returns)
        full == [i \in 1..(n \div block_size) |->
                    SubSeq(returns, (i - 1) * block_size + 1, i * block_size)]
    IN  IF n % block_size > 0
        THEN Append(full, SubSeq(returns, n - (n % block_size) + 1, n))
        ELSE full

\* the while loop: blocks are appended until there are n returns
RECURSIVE sample_blocks(_, _, _, _)
sample_blocks(bootstrapped, blocks, draws, n) ==
    IF Len(bootstrapped) >= n THEN bootstrapped
    ELSE sample_blocks(bootstrapped \o blocks[Head(draws)], blocks, Tail(draws), n)

\* variant of trim that keeps everything sampled
trim_nothing(bootstrapped, n) == bootstrapped

\* bootstrapped[:n]
trim(bootstrapped, n) == SubSeq(bootstrapped, 1, n)

\* the sequences of block indices the loop can draw: n draws always suffice
BlockDraws(blocks, n) == [1..n -> 1..Len(blocks)]

bootstrap_block_returns(returns, block_size, draws) ==
    trim(sample_blocks(<< >>, blocks_of(returns, block_size), draws, Len(returns)),
         Len(returns))

InitBootstrap ==
    /\ NoLoop /\ weights = NoWeights
    /\ pending_file = MissingFile /\ night = NoNight /\ morning = NoMorning
    /\ position = NoPosition /\ selection = NoSelection
    /\ execution = NoExecution /\ adjustment = NoAdjustment
    /\ \E returns \in ReturnSeries, block_size \in 1..MaxBlock :
          bootstrap = [called |-> TRUE, done |-> FALSE, returns |-> returns,
                       block_size |-> block_size, bootstrapped |-> << >>]

BootstrapBlockReturns ==
    /\ bootstrap.called /\ ~ bootstrap.done
    /\ \E draws \in BlockDraws(blocks_of(bootstrap.returns, bootstrap.block_size),
                               Len(bootstrap.returns)) :
          bootstrap' = [bootstrap EXCEPT
                          !.done = TRUE,
                          !.bootstrapped = bootstrap_block_returns(
                              bootstrap.returns, bootstrap.block_size, draws)]
    /\ UNCHANGED <<loop_vars, weights, pending_file, night, morning, position, selection,
                   execution, adjustment>>

NextBootstrap == BootstrapBlockReturns

SpecBootstrap == InitBootstrap /\ [][NextBootstrap]_vars

\* C26: block-bootstrapping a series of n returns with a block size >= 1
\* returns a series of exactly n returns, each of them a return of the
\* original series.
C26_BootstrapLength ==
    (bootstrap.called /\ bootstrap.done) =>
        /\ Len(bootstrap.bootstrapped) = Len(bootstrap.returns)
        /\ \A i \in 1..Len(bootstrap.bootstrapped) :
              \E j \in 1..Len(bootstrap.returns) :
                 bootstrap.bootstrapped[i] = bootstrap.returns[j]

\* a call on three returns with blocks of two (a full block and a block of
\* the remaining return) whose last sampled block was cut by the trim
C26_Witness ==
    /\ bootstrap.called /\ bootstrap.done
    /\ Len(bootstrap.returns) = 3 /\ bootstrap.block_size = 2
    /\ bootstrap.returns[1] # bootstrap.returns[2]
    /\ bootstrap.returns[2] # bootstrap.returns[3]
    /\ bootstrap.returns[1] # bootstrap.returns[3]
    /\ bootstrap.bootstrapped =
          <<bootstrap.returns[1], bootstrap.returns[2], bootstrap.returns[1]>>

(***************************************************************************)
(* The regime-based position adjustment of the Hyperliquid executors:      *)
(* HyperliquidExecutor.adjust_position for one symbol, and                 *)
(* MultiVaultExecutor.adjust_positions_for_regime for one symbol on one    *)
(* vault that holds the whole portfolio.  Fractions of capital and         *)
(* leverages are in thousandths; sizes are in units of                     *)
(* 1 / (SizeUnit * current_price) contracts, which keeps them integers.    *)
(***************************************************************************)
\* config.py, fractions in thousandths
TRADING_UNIVERSE == {"BTC", "ETH"}
MAX_POSITION_SIZE == 167
MIN_POSITION_SIZE == 33
MAX_LEVERAGE == 3
REGIME_POSITION_SIZES == [Q1 |-> 333, Q2 |-> 167, Q3 |-> 167, Q4 |-> 0]
REGIME_LEVERAGE == [Q1 |-> 333, Q2 |-> 167, Q3 |-> 167, Q4 |-> 167]

\* a fraction of capital times a leverage is in millionths
SizeUnit == 1000 * 1000

\* account values are 1..MaxAccountValue, mark prices 1..MaxMarkPrice,
\* current sizes 0..MaxSize contracts
MaxAccountValue == 3
MaxMarkPrice == 2
MaxSize == 1

\* the symbols a caller may pass: the trading universe and one outside it
AdjustSymbols == TRADING_UNIVERSE \cup {"SOL"}

Min(x, y) == IF x < y THEN x ELSE y
Max(x, y) == IF x < y THEN y ELSE x

\* min(REGIME_LEVERAGE.get(regime, 1.0), MAX_LEVERAGE)
regime_leverage(regime) == Min(REGIME_LEVERAGE[regime], MAX_LEVERAGE * 1000)

\* target_size_contracts: account_value * position_size_pct / price *
\* leverage, clamped to [min_size, max_size]
target_size_contracts(regime, account_value) ==
    LET leverage == regime_leverage(regime)
        size     == account_value * REGIME_POSITION_SIZES[regime] * leverage
        max_size == account_value * MAX_POSITION_SIZE * leverage
        min_size == account_value * MIN_POSITION_SIZE * leverage
    IN  Max(min_size, Min(max_size, size))

\* a number of contracts in size units
contracts(n, current_price) == n * SizeUnit * current_price

\* the order for the difference between target and current size; none
\* under the minimum size threshold 0.01
size_diff_order(target, current, current_price) ==
    IF Abs(target - current) * 100 < contracts(1, current_price) THEN << >>
    ELSE [side |-> IF target > current THEN "buy" ELSE "sell",
          size |-> Abs(target - current)]

\* the size after the order is filled
size_after(current, order) ==
    IF order = << >> THEN current
    ELSE IF order.side = "buy" THEN current + order.size
    ELSE current - order.size

\* adjust_position / adjust_positions_for_regime on one symbol: nothing for
\* a symbol outside the universe or when the account request fails
adjust_position(call) ==
    IF call.symbol \notin TRADING_UNIVERSE \/ ~ call.request_ok
    THEN [call EXCEPT !.done = TRUE]
    ELSE LET target  == target_size_contracts(call.regime, call.account_value)
             current == contracts(call.current_size, call.current_price)
             order   == size_diff_order(target, current, call.current_price)
         IN  [call EXCEPT !.done = TRUE, !.targeted = TRUE, !.target_size = target,
                          !.order = order,
                          !.new_size = size_after(current, order)]

AdjustCalls ==
    [called : {TRUE}, done : {FALSE}, executor : {"single", "multi"},
     symbol : AdjustSymbols, regime : Quads, request_ok : BOOLEAN,
     account_value : 1..MaxAccountValue, current_price : 1..MaxMarkPrice,
     current_size : 0..MaxSize,
     targeted : {FALSE}, target_size : {0}, order : {<< >>}, new_size : {0}]

InitAdjustment ==
    /\ NoLoop /\ weights = NoWeights
    /\ pending_file = MissingFile /\ night = NoNight /\ morning = NoMorning
    /\ position = NoPosition /\ selection = NoSelection
    /\ execution = NoExecution /\ bootstrap = NoBootstrap
    /\ adjustment \in AdjustCalls

adjustment_others ==
    <<loop_vars, weights, pending_file, night, morning, position, selection,
      execution, bootstrap>>

AdjustPosition ==
    /\ adjustment.called /\ ~ adjustment.done /\ adjustment.executor = "single"
    /\ adjustment' = adjust_position(adjustment)
    /\ UNCHANGED adjustment_others

AdjustPositionsForRegime ==
    /\ adjustment.called /\ ~ adjustment.done /\ adjustment.executor = "multi"
    /\ adjustment' = adjust_position(adjustment)
    /\ UNCHANGED adjustment_others

NextAdjustment == AdjustPosition \/ AdjustPositionsForRegime

SpecAdjustment == InitAdjustment /\ [][NextAdjustment]_vars

\* C28 as stated: in regime Q4 the adjustment of a traded symbol targets the
\* size zero, and after it the position in the symbol is zero.
C28_FlatInQ4 ==
    (adjustment.called /\ adjustment.done /\ adjustment.targeted
        /\ adjustment.regime = "Q4") =>
        /\ adjustment.target_size = 0
        /\ adjustment.new_size = 0

\* C29: at the end of every simulated day of the entry-lag backtests, no
\* ticker both holds a position and has a pending entry.
C29_HeldOrPending ==
    \A t \in DOMAIN actual_positions :
        ~ (IsPos(actual_positions[t]) /\ t \in DOMAIN pending_entries)

\* a day on which the rebalance block ran with a held ticker that is still
\* targeted, while the other ticker has a pending entry
C29_Witness ==
    /\ log.rebalanced
    /\ \E t \in DOMAIN actual_positions :
          /\ IsPos(actual_positions[t]) /\ IsPos(log.targets[t])
          /\ t \notin log.confirmed
    /\ \E u \in DOMAIN pending_entries : actual_positions[u] = Zero

\* C30: in the same-day-confirmation backtest a ticker whose pending entry is
\* rejected on a day has no pending entry at the end of that day.
C30_RejectedNotRequeued ==
    [][ variant = "LAG_CURRENT" =>
            \A t \in DOMAIN pending_entries :
                t \in log'.rejected => t \notin DOMAIN pending_entries'
      ]_vars

====
